---- MODULE Spec2Model ----
(***************************************************************************)
(* Poem generator clients: the Router client with cascading fallback       *)
(* (falcon.py: call_router, robust_generate) and the dedicated-endpoint     *)
(* client (streamlit_app.py: hf_generate_via_endpoint).                     *)
(*                                                                         *)
(* Python values.  A str is Str(s) with s a sequence of text fragments     *)
(* (concatenation is \o, the empty string is Str(<<>>)); None is the       *)
(* record None.  A decoded JSON document is None, a Str, JList(items) or   *)
(* JDict(d) with d a function from key names to values.                    *)
(*                                                                         *)
(* Spec is one run of robust_generate on the first entries of the          *)
(* configured model and provider lists; SpecAttempt is one call of         *)
(* call_router, of hf_generate_via_endpoint or of the button handler on    *)
(* its own; SpecConcurrent is two runs of robust_generate in two threads   *)
(* of one process, their state in the variable conc.  The variable         *)
(* net is the log of the HTTP exchanges: each request sent, with how the   *)
(* network and the remote API ended it.                                    *)
(***************************************************************************)
EXTENDS Naturals, Sequences, FiniteSets, TLC

VARIABLES HF_TOKEN, ENDPOINT_URL, models, providers, pc, mi, pi, tried_msgs, ret, net, att,
          conc

vars == <<HF_TOKEN, ENDPOINT_URL, models, providers, pc, mi, pi, tried_msgs, ret, net, att, conc>>

-----------------------------------------------------------------------------
(* Bounds of the model *)
\* a run has at most this many (model, provider) combinations
MaxCombinations == 4
\* of two concurrent runs, each has at most this many combinations
MaxRunCalls == 2

(* Program constants *)
TIMEOUT == 180
MAX_TOKENS == 300
\* temperature 0.9, in hundredths
TEMPERATURE_CENTI == 90
PAYLOAD_CHARS == 400
TRACEBACK_CHARS == 800
\* the sliders of the endpoint app: top_p 0.9 and repetition penalty 1.15 in hundredths
SLIDER_MAX_NEW_TOKENS == 256
DEFAULT_TOP_P_CENTI == 90
DEFAULT_TOP_K == 50
DEFAULT_REPETITION_PENALTY_CENTI == 115

-----------------------------------------------------------------------------
(* Python values *)
None == [t |-> "None"]
Str(s) == [t |-> "str", s |-> s]
JList(items) == [t |-> "list", items |-> items]
JDict(d) == [t |-> "dict", d |-> d]

IsStr(v) == v.t = "str"
IsList(v) == v.t = "list"
IsDict(v) == v.t = "dict"

\* Python truthiness: None, "", [] and {} are false
Truthy(v) ==
    CASE v.t = "None" -> FALSE
      [] v.t = "str" -> v.s # <<>>
      [] v.t = "list" -> v.items # <<>>
      [] v.t = "dict" -> DOMAIN v.d # {}

\* a or b
PyOr(a, b) == IF Truthy(a) THEN a ELSE b

\* s[:n], on fragments
Truncate(s, n) == IF Len(s) <= n THEN s ELSE SubSeq(s, 1, n)

\* the fragments of s2 occur consecutively in s1 (Python: s2 in s1)
Contains(s1, s2) ==
    \E i \in 0..(Len(s1) - Len(s2)) :
        \A j \in 1..Len(s2) : s1[i + j] = s2[j]

\* str(v) / f"{v}" of a value
RECURSIVE PyFormat(_)
PyFormat(v) ==
    CASE v.t = "None" -> <<"None">>
      [] v.t = "str" -> v.s
      [] v.t = "list" ->
            <<"[">> \o (IF v.items = <<>> THEN <<>> ELSE PyFormat(v.items[1])) \o <<"]">>
      [] v.t = "dict" ->
            <<"{">> \o
            (IF "generated_text" \in DOMAIN v.d
                THEN <<"'generated_text': ">> \o PyFormat(v.d["generated_text"]) ELSE <<>>) \o
            (IF "text" \in DOMAIN v.d
                THEN <<"'text': ">> \o PyFormat(v.d["text"]) ELSE <<>>) \o
            (IF "output_text" \in DOMAIN v.d
                THEN <<"'output_text': ">> \o PyFormat(v.d["output_text"]) ELSE <<>>) \o
            (IF "error" \in DOMAIN v.d
                THEN <<"'error': ">> \o PyFormat(v.d["error"]) ELSE <<>>) \o
            <<"}">>

-----------------------------------------------------------------------------
(* Transport: what one requests.post(...) / raise_for_status() / json() does *)

ErrorBody == <<"<response body>">>

\* outcome of one HTTP exchange, chosen by the network and the remote API
Outcome(kind, status, data) == [kind |-> kind, status |-> status, data |-> data]

Poem == Str(<<"Luna de otoño...">>)
Prompt == Str(<<"Eres un poeta experto en español. ", "Ahora escribe el poema:">>)

\* the formatted traceback of the exception caught by "except Exception"
ExceptionText(o) ==
    IF o.kind = "not_json"
        THEN <<"Traceback (most recent call last): ", "JSONDecodeError">>
        ELSE <<"Traceback (most recent call last): ", "ConnectionError">>

-----------------------------------------------------------------------------
(* falcon.py *)

ROUTER_BASE == <<"https://router.huggingface.co/models">>

router_url(model_id) == ROUTER_BASE \o <<"/">> \o model_id.s

RouterHeaders(token) ==
    [Authorization |-> <<"Bearer ">> \o PyFormat(token),
     Accept |-> "application/json",
     ContentType |-> "application/json"]

\* the provider field is always written, with the label when none is requested
RouterPayload_AlwaysProvider(prompt, provider, max_tokens, temperature, return_full_text) ==
    [inputs |-> prompt,
     parameters |-> [max_new_tokens |-> max_tokens,
                     temperature |-> temperature,
                     return_full_text |-> return_full_text],
     provider |-> PyOr(provider, Str(<<"auto">>))]

RouterPayload(prompt, provider, max_tokens, temperature, return_full_text) ==
    LET parameters == [max_new_tokens |-> max_tokens,
                       temperature |-> temperature,
                       return_full_text |-> return_full_text]
    IN  IF Truthy(provider)
            THEN [inputs |-> prompt, parameters |-> parameters, provider |-> provider]
            ELSE [inputs |-> prompt, parameters |-> parameters]

RouterRequest(prompt, model_id, provider, token) ==
    [url |-> router_url(model_id),
     headers |-> RouterHeaders(token),
     json |-> RouterPayload(prompt, provider, MAX_TOKENS, TEMPERATURE_CENTI, FALSE),
     timeout |-> TIMEOUT]

\* the first non-empty value instead of the first key present:
\* data[0].get("generated_text") or data[0].get("text") or data[0].get("output_text")
RouterExtract_FirstTruthy(data) ==
    IF IsList(data) /\ Truthy(data) /\ IsDict(data.items[1])
        THEN LET d == data.items[1].d
                 get(k) == IF k \in DOMAIN d THEN d[k] ELSE None
                 v == PyOr(PyOr(get("generated_text"), get("text")), get("output_text"))
             IN  [found |-> v # None, value |-> v]
        ELSE IF IsDict(data) /\ "generated_text" \in DOMAIN data.d
            THEN [found |-> TRUE, value |-> data.d["generated_text"]]
            ELSE [found |-> FALSE, value |-> None]

\* the extraction of the text from the decoded 2xx payload
RouterExtract(data) ==
    IF IsList(data) /\ Truthy(data) /\ IsDict(data.items[1])
         /\ (DOMAIN data.items[1].d) \cap {"generated_text", "text", "output_text"} # {}
        THEN LET d == data.items[1].d
             IN  [found |-> TRUE,
                  value |-> IF "generated_text" \in DOMAIN d THEN d["generated_text"]
                            ELSE IF "text" \in DOMAIN d THEN d["text"]
                            ELSE d["output_text"]]
        ELSE IF IsDict(data) /\ "generated_text" \in DOMAIN data.d
            THEN [found |-> TRUE, value |-> data.d["generated_text"]]
            ELSE [found |-> FALSE, value |-> None]

RouterUnexpectedMsg(model_id, provider, data) ==
    Str(<<"Respuesta inesperada del Router para ">> \o model_id.s
        \o <<" (provider=">> \o PyFormat(provider) \o <<"). Payload: ">>
        \o Truncate(PyFormat(data), PAYLOAD_CHARS))

\* the message of the "except requests.HTTPError" handler for a status
RouterHTTPErrorMsg(status, model_id, provider) ==
    IF status = 404
        THEN Str(<<"404 Not Found para ">> \o model_id.s
                 \o <<" (provider=">> \o PyFormat(provider) \o <<").">>)
    ELSE IF status = 503
        THEN Str(<<"503 Servicio no disponible (cold start) para ">> \o model_id.s
                 \o <<" (provider=">> \o PyFormat(provider) \o <<").">>)
    ELSE IF status = 410
        THEN Str(<<"410: api-inference.huggingface.co fue deprecado; usa router.huggingface.co. ">>
                 \o <<"(Modelo=">> \o model_id.s
                 \o <<", provider=">> \o PyFormat(provider) \o <<")">>)
    ELSE Str(<<"HTTP ", ToString(status)>> \o <<" para ">> \o model_id.s
             \o <<" (provider=">> \o PyFormat(provider) \o <<"). Body: ">> \o ErrorBody)

\* "except Exception" placed before "except requests.Timeout": a timeout is
\* reported as an unexpected fault
RouterTimeoutMsg_AsException(model_id, provider) ==
    Str(<<"Excepción: ", "Traceback (most recent call last): ", "ReadTimeout">>)

RouterTimeoutMsg(model_id, provider) ==
    Str(<<"Timeout para ">> \o model_id.s
        \o <<" (provider=">> \o PyFormat(provider) \o <<").">>)

RouterExceptionMsg(o) ==
    Str(<<"Excepción: ">> \o Truncate(ExceptionText(o), TRACEBACK_CHARS))

Returned(ok, out, used) == [raised |-> FALSE, ok |-> ok, out |-> out, used |-> used]
Raised == [raised |-> TRUE, ok |-> FALSE, out |-> None, used |-> None]

\* call_router(prompt, model_id, provider) when the exchange ends as o:
\* the value it returns, or Raised when an exception leaves the function
call_router(prompt, model_id, provider, o) ==
    LET label == PyOr(provider, Str(<<"auto">>))
    IN  CASE o.kind = "2xx" ->
                LET x == RouterExtract(o.data)
                IN  IF x.found
                        THEN Returned(TRUE, x.value, label)
                        ELSE Returned(FALSE, RouterUnexpectedMsg(model_id, provider, o.data), label)
          [] o.kind = "http" ->
                Returned(FALSE, RouterHTTPErrorMsg(o.status, model_id, provider), label)
          [] o.kind = "http_no_response" ->
                \* e.response is None: e.response.status_code raises AttributeError
                \* inside the handler, which no later except clause catches
                Raised
          [] o.kind = "timeout" ->
                Returned(FALSE, RouterTimeoutMsg(model_id, provider), label)
          [] OTHER ->
                Returned(FALSE, RouterExceptionMsg(o), label)

-----------------------------------------------------------------------------
(* streamlit_app.py *)

EndpointHeaders(token) ==
    [Authorization |-> <<"Bearer ">> \o PyFormat(token),
     Accept |-> "application/json",
     ContentType |-> "application/json"]

\* the body without the temperature
EndpointPayload_NoTemperature(prompt, max_tokens, temperature) ==
    [inputs |-> prompt, parameters |-> [max_new_tokens |-> max_tokens]]

EndpointPayload(prompt, max_tokens, temperature) ==
    [inputs |-> prompt,
     parameters |-> [max_new_tokens |-> max_tokens, temperature |-> temperature]]

EndpointRequest(prompt, url, token) ==
    [url |-> PyFormat(url),
     headers |-> EndpointHeaders(token),
     json |-> EndpointPayload(prompt, MAX_TOKENS, TEMPERATURE_CENTI),
     timeout |-> TIMEOUT]

\* if not HF_TOKEN or not ENDPOINT_URL
ConfigIncomplete(token, url) == ~Truthy(token) \/ ~Truthy(url)

ConfigIncompleteMsg ==
    Str(<<"Configuración incompleta: faltan secretos HF_TOKEN o HF_ENDPOINT_URL.">>)

EndpointExtract(data) ==
    IF IsList(data) /\ Truthy(data) /\ IsDict(data.items[1])
         /\ (DOMAIN data.items[1].d) \cap {"generated_text", "text", "output_text"} # {}
        THEN LET d == data.items[1].d
             IN  [found |-> TRUE,
                  value |-> IF "generated_text" \in DOMAIN d THEN d["generated_text"]
                            ELSE IF "text" \in DOMAIN d THEN d["text"]
                            ELSE d["output_text"]]
        ELSE IF IsDict(data) /\ "generated_text" \in DOMAIN data.d
            THEN [found |-> TRUE, value |-> data.d["generated_text"]]
            ELSE [found |-> FALSE, value |-> None]

EndpointUnexpectedMsg(data) ==
    Str(<<"Respuesta inesperada del endpoint: ">> \o Truncate(PyFormat(data), PAYLOAD_CHARS))

EndpointHTTPErrorMsg(status) ==
    IF status = 401
        THEN Str(<<"401 No autorizado: revisa tu HF_TOKEN o permisos.">>)
    ELSE IF status = 403
        THEN Str(<<"403 Prohibido: el endpoint o el modelo requieren permisos/licencia.">>)
    ELSE IF status = 404
        THEN Str(<<"404 No encontrado: revisa la URL HF_ENDPOINT_URL.">>)
    ELSE IF status = 503
        THEN Str(<<"503 Servicio no disponible: el endpoint está arrancando (cold start) o saturado.">>)
    ELSE Str(<<"HTTP ", ToString(status)>> \o <<": ">> \o ErrorBody)

EndpointTimeoutMsg == Str(<<"⏰ Timeout: el endpoint tardó demasiado en responder.">>)

EndpointExceptionMsg(o) ==
    Str(<<"Excepción: ">> \o Truncate(ExceptionText(o), TRACEBACK_CHARS))

\* hf_generate_via_endpoint(prompt) when the exchange, if one is made, ends as o;
\* sent tells whether requests.post was called
hf_generate_via_endpoint(prompt, token, url, o) ==
    IF ConfigIncomplete(token, url)
        THEN [raised |-> FALSE, ok |-> FALSE, out |-> ConfigIncompleteMsg, sent |-> FALSE]
    ELSE CASE o.kind = "2xx" ->
                LET x == EndpointExtract(o.data)
                IN  IF x.found
                        THEN [raised |-> FALSE, ok |-> TRUE, out |-> x.value, sent |-> TRUE]
                        ELSE [raised |-> FALSE, ok |-> FALSE,
                              out |-> EndpointUnexpectedMsg(o.data), sent |-> TRUE]
          [] o.kind = "http" ->
                [raised |-> FALSE, ok |-> FALSE, out |-> EndpointHTTPErrorMsg(o.status), sent |-> TRUE]
          [] o.kind = "http_no_response" ->
                \* e.response is None: e.response.status_code raises AttributeError
                [raised |-> TRUE, ok |-> FALSE, out |-> None, sent |-> TRUE]
          [] o.kind = "timeout" ->
                [raised |-> FALSE, ok |-> FALSE, out |-> EndpointTimeoutMsg, sent |-> TRUE]
          [] OTHER ->
                [raised |-> FALSE, ok |-> FALSE, out |-> EndpointExceptionMsg(o), sent |-> TRUE]

-----------------------------------------------------------------------------
(* streamlit_app.py: the handler of the "Generar Poema" button *)

\* the nested "parameters" dict of base_payload is one object, at this address
ParamsRef == "parameters@base_payload"

\* base_payload = {"inputs": prompt, "parameters": {...}}: the top-level dict,
\* holding the address of the nested dict, and the heap with the nested dict
BasePayload(prompt) == [inputs |-> prompt, parameters |-> ParamsRef]

BaseHeap(max_new_tokens, temperature) ==
    [r \in {ParamsRef} |-> [max_new_tokens |-> max_new_tokens, temperature |-> temperature]]

\* the dict a payload stands for, its nested dict read from the heap
Deref(payload, heap) ==
    [inputs |-> payload.inputs, parameters |-> heap[payload.parameters]]

\* extras: only the sliders moved away from their default
Extras(top_p, top_k, repetition_penalty) ==
    LET keys == (IF top_p # DEFAULT_TOP_P_CENTI THEN {"top_p"} ELSE {})
                \cup (IF top_k # DEFAULT_TOP_K THEN {"top_k"} ELSE {})
                \cup (IF repetition_penalty # DEFAULT_REPETITION_PENALTY_CENTI
                         THEN {"repetition_penalty"} ELSE {})
    IN  [k \in keys |-> CASE k = "top_p" -> top_p
                          [] k = "top_k" -> top_k
                          [] OTHER -> repetition_penalty]

\* d.update(e)
DictUpdate(d, e) ==
    [k \in DOMAIN d \cup DOMAIN e |-> IF k \in DOMAIN e THEN e[k] ELSE d[k]]

\* _merge_extra_params(base_params): dict(base_params) copies the top level
\* only, so setdefault("parameters", {}) returns the nested dict of the
\* argument and update(extras) writes into it
merge_extra_params(base_params, heap, extras) ==
    LET copy == base_params
        ref == copy.parameters
    IN  [payload |-> copy,
         heap |-> [heap EXCEPT ![ref] = DictUpdate(heap[ref], extras)]]

\* the inline extraction of the handler
HandlerExtract(data) ==
    IF IsList(data) /\ Truthy(data) /\ IsDict(data.items[1])
        THEN LET d == data.items[1].d
                 get(k) == IF k \in DOMAIN d THEN d[k] ELSE None
                 poem == PyOr(PyOr(get("generated_text"), get("text")), get("output_text"))
             IN  IF poem # None
                    THEN [ok |-> TRUE, poem |-> poem]
                    ELSE [ok |-> FALSE, poem |-> EndpointUnexpectedMsg(data)]
        ELSE IF IsDict(data) /\ "generated_text" \in DOMAIN data.d
            THEN [ok |-> TRUE, poem |-> data.d["generated_text"]]
            ELSE [ok |-> FALSE, poem |-> EndpointUnexpectedMsg(data)]

HandlerHTTPErrorMsg(status) ==
    IF status = 401
        THEN Str(<<"401 No autorizado: revisa HF_TOKEN o permisos.">>)
    ELSE IF status = 403
        THEN Str(<<"403 Prohibido: el endpoint o el modelo requieren permisos/licencia.">>)
    ELSE IF status = 404
        THEN Str(<<"404 No encontrado: revisa la URL HF_ENDPOINT_URL.">>)
    ELSE IF status = 503
        THEN Str(<<"503 Servicio no disponible: el endpoint está arrancando (cold start) o saturado.">>)
    ELSE Str(<<"HTTP ", ToString(status)>> \o <<": ">> \o ErrorBody)

split_key == "Ahora escribe el poema:"

Whitespace == {" ", "\n"}

\* s.strip(), on fragments
RECURSIVE Strip(_)
Strip(s) ==
    IF s = <<>> THEN s
    ELSE IF Head(s) \in Whitespace THEN Strip(Tail(s))
    ELSE IF s[Len(s)] \in Whitespace THEN Strip(SubSeq(s, 1, Len(s) - 1))
    ELSE s

FirstIndex(s, x) == CHOOSE i \in 1..Len(s) : s[i] = x /\ \A j \in 1..(i - 1) : s[j] # x

\* if split_key in poem: poem = poem.split(split_key, 1)[-1].strip()
StripEcho(poem) ==
    IF Contains(poem.s, <<split_key>>)
        THEN Str(Strip(SubSeq(poem.s, FirstIndex(poem.s, split_key) + 1, Len(poem.s))))
        ELSE poem

\* one run of the handler: which branch of the if/elif chain it took (stage),
\* the request sent if any, ok and poem after the try, the text displayed, and
\* base_payload as it is after the run
HandlerResult(stage, raised, ok, out, shown, sent, payload, base_after) ==
    [stage |-> stage, raised |-> raised, ok |-> ok, out |-> out, shown |-> shown,
     sent |-> sent, payload |-> payload, base_after |-> base_after]

NoPayload == [inputs |-> None, parameters |-> << >>]

button_handler(tema_ok, df_ok, token, url, top_p, top_k, repetition_penalty, o) ==
    IF ~tema_ok
        THEN HandlerResult("tema", FALSE, FALSE,
                 Str(<<"Por favor, ingresa un tema válido para la generación.">>),
                 None, FALSE, NoPayload, NoPayload)
    ELSE IF ConfigIncomplete(token, url)
        THEN HandlerResult("config", FALSE, FALSE,
                 Str(<<"Faltan secretos HF_TOKEN y/o HF_ENDPOINT_URL en el Space.">>),
                 None, FALSE, NoPayload, NoPayload)
    ELSE IF ~df_ok
        THEN HandlerResult("dataset", FALSE, FALSE,
                 Str(<<"El dataset de poemas no se cargó correctamente (poems_clean.csv).">>),
                 None, FALSE, NoPayload, NoPayload)
    ELSE
        LET base_payload == BasePayload(Prompt)
            heap0 == BaseHeap(SLIDER_MAX_NEW_TOKENS, TEMPERATURE_CENTI)
            merged == merge_extra_params(base_payload, heap0,
                                         Extras(top_p, top_k, repetition_penalty))
            payload == Deref(merged.payload, merged.heap)
            base_after == Deref(base_payload, merged.heap)
            tried ==
                CASE o.kind = "2xx" ->
                        LET x == HandlerExtract(o.data)
                        IN  [raised |-> FALSE, ok |-> x.ok, poem |-> x.poem]
                  [] o.kind = "http" ->
                        [raised |-> FALSE, ok |-> FALSE, poem |-> HandlerHTTPErrorMsg(o.status)]
                  [] o.kind = "http_no_response" ->
                        [raised |-> TRUE, ok |-> FALSE, poem |-> None]
                  [] o.kind = "timeout" ->
                        [raised |-> FALSE, ok |-> FALSE, poem |-> EndpointTimeoutMsg]
                  [] OTHER ->
                        [raised |-> FALSE, ok |-> FALSE, poem |-> EndpointExceptionMsg(o)]
        IN  IF ConfigIncomplete(token, url)
                THEN HandlerResult("ran", FALSE, FALSE, Str(<<"Config del endpoint incompleta.">>),
                         Str(<<"Config del endpoint incompleta.">>), FALSE, NoPayload,
                         Deref(base_payload, heap0))
            ELSE IF tried.raised
                THEN HandlerResult("ran", TRUE, FALSE, None, None, TRUE, payload, base_after)
            ELSE IF tried.ok /\ ~IsStr(tried.poem)
                \* "split_key in poem" on a poem that is not a str raises TypeError
                THEN HandlerResult("ran", TRUE, TRUE, tried.poem, None, TRUE, payload, base_after)
            ELSE HandlerResult("ran", FALSE, tried.ok, tried.poem,
                     IF tried.ok THEN StripEcho(tried.poem) ELSE tried.poem,
                     TRUE, payload, base_after)

-----------------------------------------------------------------------------
(* falcon.py: robust_generate *)

\* the loop "for m in models: for p in providers": (m, p) is the position of the
\* next combination, nm = len(models), np = len(providers)
HasNext(m, p, nm, np) == m <= nm /\ p <= np

\* the two loops exchanged: "for p in providers: for m in models"
NextPos_ProvidersOuter(m, p, nm, np) ==
    IF m < nm THEN [mi |-> m + 1, pi |-> p] ELSE [mi |-> 1, pi |-> p + 1]

\* after the last combination the loops start over
NextPos_WrapsAround(m, p, nm, np) ==
    IF p < np THEN [mi |-> m, pi |-> p + 1]
    ELSE IF m < nm THEN [mi |-> m + 1, pi |-> 1]
    ELSE [mi |-> 1, pi |-> 1]

NextPos(m, p, nm, np) ==
    IF p < np THEN [mi |-> m, pi |-> p + 1] ELSE [mi |-> m + 1, pi |-> 1]

\* tried_msgs.insert(0, out)
AppendTried_Front(tried, out) == <<out>> \o tried

\* tried_msgs.append(out)
AppendTried(tried, out) == Append(tried, out)

\* the successful output is logged too before returning
ReturnSuccess_LogsSuccess(out, m, used_provider, tried) ==
    [ok |-> TRUE, text_or_error |-> out, used_model |-> m,
     used_provider |-> used_provider, tried_msgs |-> Append(tried, out)]

\* the model that answered is not reported
ReturnSuccess_NoModel(out, m, used_provider, tried) ==
    [ok |-> TRUE, text_or_error |-> out, used_model |-> None,
     used_provider |-> used_provider, tried_msgs |-> tried]

\* return True, out, m, used_provider, tried_msgs
ReturnSuccess(out, m, used_provider, tried) ==
    [ok |-> TRUE, text_or_error |-> out, used_model |-> m,
     used_provider |-> used_provider, tried_msgs |-> tried]

\* the final message is appended to the log before returning
ReturnExhausted_LogsFinal(tried) ==
    [ok |-> FALSE,
     text_or_error |-> Str(<<"Ninguna combinación (modelo/proveedor) respondió correctamente.">>),
     used_model |-> None, used_provider |-> None,
     tried_msgs |-> Append(tried, Str(<<"Ninguna combinación (modelo/proveedor) respondió correctamente.">>))]

\* return False, "Ninguna combinación ...", None, None, tried_msgs
ReturnExhausted(tried) ==
    [ok |-> FALSE,
     text_or_error |-> Str(<<"Ninguna combinación (modelo/proveedor) respondió correctamente.">>),
     used_model |-> None, used_provider |-> None, tried_msgs |-> tried]

\* the loop also ends on a failure that is not worth retrying (a plain HTTP error)
StopsAfter_NonRetryable(r) == r.ok \/ Head(r.out.s) = "HTTP "

\* "if ok: return ... else: tried_msgs.append(out)": does the loop end here
StopsAfter(r) == r.ok

-----------------------------------------------------------------------------
(* Inputs *)

\* the configured lists, in their order of preference
CANDIDATE_MODELS ==
    <<Str(<<"HuggingFaceH4/zephyr-7b-beta">>),
      Str(<<"mistralai/Mistral-7B-Instruct-v0.2">>),
      Str(<<"google/gemma-2-2b-it">>),
      Str(<<"Qwen/Qwen2.5-7B-Instruct">>),
      Str(<<"gpt2">>)>>

CANDIDATE_PROVIDERS ==
    <<None, Str(<<"hf-inference">>), Str(<<"together">>), Str(<<"fireworks">>),
      Str(<<"perplexity">>)>>

\* the arguments of a run: the first k entries of a configured list
Prefixes(list, n) ==
    {SubSeq(list, 1, k) : k \in 0..(IF n < Len(list) THEN n ELSE Len(list))}

ModelIds == {CANDIDATE_MODELS[1], CANDIDATE_MODELS[2]}
ProviderVals == {CANDIDATE_PROVIDERS[1], CANDIDATE_PROVIDERS[2]}
Tokens == {None, Str(<<"hf_token">>)}

RecognizedPayloads ==
    {JList(<<JDict([generated_text |-> Poem])>>),
     JDict([generated_text |-> Poem]),
     JList(<<JDict([text |-> Poem])>>),
     JList(<<JDict([generated_text |-> None])>>)}

\* the exchanges one attempt of a run can end in
RunOutcomes ==
    {Outcome("2xx", 200, d) : d \in RecognizedPayloads \cup {JList(<<>>)}}
    \cup {Outcome("http", s, None) : s \in {401, 403, 404, 410, 503}}
    \cup {Outcome(k, 0, None) : k \in {"http_no_response", "timeout", "fault"}}

NoReturn ==
    [ok |-> FALSE, text_or_error |-> None, used_model |-> None,
     used_provider |-> None, tried_msgs |-> <<>>]

NoAttempt == [fn |-> "none"]
NoConcurrency == [state |-> "none"]

-----------------------------------------------------------------------------
(* robust_generate(prompt, models, providers) *)

Init ==
    /\ HF_TOKEN \in Tokens
    /\ ENDPOINT_URL = None
    /\ models \in Prefixes(CANDIDATE_MODELS, MaxCombinations)
    /\ providers \in Prefixes(CANDIDATE_PROVIDERS, MaxCombinations)
    /\ Len(models) * Len(providers) <= MaxCombinations
    /\ pc = "loop"
    /\ mi = 1
    /\ pi = 1
    /\ tried_msgs = <<>>
    /\ ret = NoReturn
    /\ net = <<>>
    /\ att = NoAttempt
    /\ conc = NoConcurrency

\* one iteration of the inner loop: the call and the "if ok" that follows it
Attempt ==
    /\ pc = "loop"
    /\ HasNext(mi, pi, Len(models), Len(providers))
    /\ \E o \in RunOutcomes :
        LET m == models[mi]
            p == providers[pi]
            r == call_router(Prompt, m, p, o)
            pos == NextPos(mi, pi, Len(models), Len(providers))
        IN  /\ net' = Append(net, [request |-> RouterRequest(Prompt, m, p, HF_TOKEN),
                                   model |-> m, provider |-> p, outcome |-> o])
            /\ IF r.raised
                  THEN /\ pc' = "raised"
                       /\ UNCHANGED <<mi, pi, tried_msgs, ret>>
               ELSE IF StopsAfter(r)
                  THEN /\ pc' = "returned"
                       /\ ret' = ReturnSuccess(r.out, m, r.used, tried_msgs)
                       /\ UNCHANGED <<mi, pi, tried_msgs>>
               ELSE /\ tried_msgs' = AppendTried(tried_msgs, r.out)
                    /\ mi' = pos.mi
                    /\ pi' = pos.pi
                    /\ UNCHANGED <<pc, ret>>
    /\ UNCHANGED <<HF_TOKEN, ENDPOINT_URL, models, providers, att, conc>>

\* both loops are over: the final return
Exhausted ==
    /\ pc = "loop"
    /\ ~HasNext(mi, pi, Len(models), Len(providers))
    /\ pc' = "returned"
    /\ ret' = ReturnExhausted(tried_msgs)
    /\ UNCHANGED <<HF_TOKEN, ENDPOINT_URL, models, providers, mi, pi, tried_msgs, net, att, conc>>

Next == Attempt \/ Exhausted

Spec == Init /\ [][Next]_vars

\* every call returns (requests.post has timeout=180) and the interpreter keeps
\* running the loop: a step that can be taken is taken
SpecLive == Spec /\ WF_vars(Attempt) /\ WF_vars(Exhausted)

-----------------------------------------------------------------------------
(* Two runs of robust_generate in two threads of one process *)

Runs == {1, 2}

ConcurrentOutcomes ==
    {Outcome("2xx", 200, JList(<<JDict([generated_text |-> Poem])>>)),
     Outcome("http", 503, None),
     Outcome("timeout", 0, None),
     Outcome("http_no_response", 0, None)}

\* one list object for the whole module, handed to every run
NewList_ModuleLevel(heap) ==
    IF heap = <<>> THEN [addr |-> 1, heap |-> <<<<>>>>] ELSE [addr |-> 1, heap |-> heap]

\* tried_msgs = []: a new list object, at a new address of the heap
NewList(heap) == [addr |-> Len(heap) + 1, heap |-> Append(heap, <<>>)]

\* the frame of a run: its arguments and its locals; tried_msgs holds the
\* address of the list, 0 before the assignment
Frame(ms, ps) ==
    [pc |-> "start", models |-> ms, providers |-> ps, mi |-> 1, pi |-> 1,
     tried_msgs |-> 0, ret |-> NoReturn]

InitConcurrent ==
    /\ HF_TOKEN \in Tokens
    /\ ENDPOINT_URL = None
    /\ models = <<>>
    /\ providers = <<>>
    /\ pc = "concurrent"
    /\ mi = 1
    /\ pi = 1
    /\ tried_msgs = <<>>
    /\ ret = NoReturn
    /\ net = <<>>
    /\ att = NoAttempt
    /\ \E ms \in [Runs -> Prefixes(CANDIDATE_MODELS, MaxRunCalls)] :
          conc = [state |-> "running",
                  run |-> [r \in Runs |-> Frame(ms[r], SubSeq(CANDIDATE_PROVIDERS, 1, 1))],
                  heap |-> <<>>,
                  calls |-> <<>>]

ConcUnchanged ==
    UNCHANGED <<HF_TOKEN, ENDPOINT_URL, models, providers, pc, mi, pi, tried_msgs, ret, net, att>>

\* tried_msgs = []
StartRun(r) ==
    /\ conc.state = "running"
    /\ conc.run[r].pc = "start"
    /\ LET new == NewList(conc.heap)
       IN  conc' = [conc EXCEPT !.run[r].pc = "loop",
                                !.run[r].tried_msgs = new.addr,
                                !.heap = new.heap]
    /\ ConcUnchanged

\* call_router is entered and requests.post sends the request: the thread
\* blocks until the exchange ends
SendCall(r) ==
    /\ conc.state = "running"
    /\ LET f == conc.run[r]
       IN  /\ f.pc = "loop"
           /\ HasNext(f.mi, f.pi, Len(f.models), Len(f.providers))
           /\ conc' = [conc EXCEPT !.run[r].pc = "waiting",
                                   !.calls = Append(@, [run |-> r, model |-> f.models[f.mi],
                                                        provider |-> f.providers[f.pi],
                                                        state |-> "in flight",
                                                        outcome |-> Outcome("none", 0, None)])]
    /\ ConcUnchanged

\* the exchange ends, call_router returns and the "if ok" is run
ReceiveCall(r) ==
    /\ conc.state = "running"
    /\ LET f == conc.run[r]
           k == CHOOSE i \in 1..Len(conc.calls) :
                    conc.calls[i].run = r /\ conc.calls[i].state = "in flight"
       IN  /\ f.pc = "waiting"
           /\ \E o \in ConcurrentOutcomes :
                LET res == call_router(Prompt, f.models[f.mi], f.providers[f.pi], o)
                    pos == NextPos(f.mi, f.pi, Len(f.models), Len(f.providers))
                    done == [conc.calls EXCEPT ![k].state = "returned", ![k].outcome = o]
                IN  IF res.raised
                       THEN conc' = [conc EXCEPT !.run[r].pc = "raised", !.calls = done]
                    ELSE IF StopsAfter(res)
                       THEN conc' = [conc EXCEPT
                                !.run[r].pc = "returned",
                                !.run[r].ret = ReturnSuccess(res.out, f.models[f.mi], res.used,
                                                             f.tried_msgs),
                                !.calls = done]
                    ELSE conc' = [conc EXCEPT
                                !.run[r].pc = "loop",
                                !.run[r].mi = pos.mi,
                                !.run[r].pi = pos.pi,
                                !.heap[f.tried_msgs] = AppendTried(@, res.out),
                                !.calls = done]
    /\ ConcUnchanged

\* both loops are over: the final return
ExhaustedRun(r) ==
    /\ conc.state = "running"
    /\ LET f == conc.run[r]
       IN  /\ f.pc = "loop"
           /\ ~HasNext(f.mi, f.pi, Len(f.models), Len(f.providers))
           /\ conc' = [conc EXCEPT !.run[r].pc = "returned",
                                   !.run[r].ret = ReturnExhausted(f.tried_msgs)]
    /\ ConcUnchanged

NextConcurrent ==
    \E r \in Runs : StartRun(r) \/ SendCall(r) \/ ReceiveCall(r) \/ ExhaustedRun(r)

SpecConcurrent == InitConcurrent /\ [][NextConcurrent]_vars

-----------------------------------------------------------------------------
(* One attempt of either client, called on its own *)

TextValues == {Poem, Str(<<>>), None}
TextKeys == {"generated_text", "text", "output_text"}
Mappings ==
    UNION {[K -> TextValues] : K \in SUBSET TextKeys}
    \cup {[error |-> Str(<<"Model is loading">>)]}

Payloads ==
    {JList(<<JDict(d)>>) : d \in Mappings}
    \cup {JDict(d) : d \in Mappings}
    \cup {JList(<<>>), JList(<<Poem>>), Poem, None}

Statuses == {401, 403, 404, 410, 500, 503}

Outcomes ==
    {Outcome("2xx", 200, d) : d \in Payloads}
    \cup {Outcome("http", s, None) : s \in Statuses}
    \cup {Outcome(k, 0, None) : k \in {"not_json", "http_no_response", "timeout", "fault"}}

EndpointUrls == {None, Str(<<"https://poemas.endpoints.huggingface.cloud">>)}

InitAttempt ==
    /\ HF_TOKEN \in Tokens
    /\ ENDPOINT_URL \in EndpointUrls
    /\ models = <<>>
    /\ providers = <<>>
    /\ pc = "idle"
    /\ mi = 1
    /\ pi = 1
    /\ tried_msgs = <<>>
    /\ ret = NoReturn
    /\ net = <<>>
    /\ att = NoAttempt
    /\ conc = NoConcurrency

CallRouterOnce ==
    /\ pc = "idle"
    /\ \E m \in ModelIds, p \in ProviderVals \cup {Str(<<>>)}, o \in Outcomes :
        /\ att' = [fn |-> "call_router", model |-> m, provider |-> p, outcome |-> o,
                   res |-> call_router(Prompt, m, p, o)]
        /\ net' = Append(net, [request |-> RouterRequest(Prompt, m, p, HF_TOKEN),
                               model |-> m, provider |-> p, outcome |-> o])
    /\ pc' = "done"
    /\ UNCHANGED <<HF_TOKEN, ENDPOINT_URL, models, providers, mi, pi, tried_msgs, ret, conc>>

EndpointGenerateOnce ==
    /\ pc = "idle"
    /\ \E o \in Outcomes :
        LET r == hf_generate_via_endpoint(Prompt, HF_TOKEN, ENDPOINT_URL, o)
        IN  /\ att' = [fn |-> "hf_generate_via_endpoint", model |-> None, provider |-> None,
                       outcome |-> IF r.sent THEN o ELSE Outcome("none", 0, None), res |-> r]
            /\ net' = IF r.sent
                         THEN Append(net, [request |-> EndpointRequest(Prompt, ENDPOINT_URL, HF_TOKEN),
                                           model |-> None, provider |-> None, outcome |-> o])
                         ELSE net
    /\ pc' = "done"
    /\ UNCHANGED <<HF_TOKEN, ENDPOINT_URL, models, providers, mi, pi, tried_msgs, ret, conc>>

\* raw outputs that echo the prompt: the marker once, twice, and blanks only
EchoTexts ==
    {Str(<<"Eres un poeta experto en español. ", split_key, "\n", "Luna de otoño...">>),
     Str(<<"Escribe un poema sobre el tema: ", split_key, " ", split_key, " ",
           "Luna de otoño...">>),
     Str(<<" ", "Luna de otoño...", "\n">>)}

HandlerOutcomes ==
    Outcomes \cup {Outcome("2xx", 200, JList(<<JDict([generated_text |-> t])>>)) : t \in EchoTexts}

TopPs == {DEFAULT_TOP_P_CENTI, 50}
TopKs == {DEFAULT_TOP_K, 40}
RepetitionPenalties == {DEFAULT_REPETITION_PENALTY_CENTI, 130}

ButtonEndpointOnce ==
    /\ pc = "idle"
    /\ \E tema_ok \in BOOLEAN, df_ok \in BOOLEAN, top_p \in TopPs, top_k \in TopKs,
          rp \in RepetitionPenalties, o \in HandlerOutcomes :
        LET r == button_handler(tema_ok, df_ok, HF_TOKEN, ENDPOINT_URL, top_p, top_k, rp, o)
        IN  /\ att' = [fn |-> "button_handler", model |-> None, provider |-> None,
                       outcome |-> IF r.sent THEN o ELSE Outcome("none", 0, None),
                       sliders |-> IF r.sent
                                      THEN [top_p |-> top_p, top_k |-> top_k,
                                            repetition_penalty |-> rp]
                                      ELSE [top_p |-> DEFAULT_TOP_P_CENTI, top_k |-> DEFAULT_TOP_K,
                                            repetition_penalty |-> DEFAULT_REPETITION_PENALTY_CENTI],
                       res |-> r]
            /\ net' = IF r.sent
                         THEN Append(net, [request |-> [url |-> PyFormat(ENDPOINT_URL),
                                                        headers |-> EndpointHeaders(HF_TOKEN),
                                                        json |-> r.payload,
                                                        timeout |-> TIMEOUT],
                                           model |-> None, provider |-> None, outcome |-> o])
                         ELSE net
    /\ pc' = "done"
    /\ UNCHANGED <<HF_TOKEN, ENDPOINT_URL, models, providers, mi, pi, tried_msgs, ret, conc>>

NextAttempt == CallRouterOnce \/ EndpointGenerateOnce \/ ButtonEndpointOnce

SpecAttempt == InitAttempt /\ [][NextAttempt]_vars

-----------------------------------------------------------------------------
(* Properties of robust_generate *)

\* the combinations in the order the contract gives them: models in list
\* order, and for each model the providers in list order
NumCandidates == Len(models) * Len(providers)
CandModel(k) == models[((k - 1) \div Len(providers)) + 1]
CandProvider(k) == providers[((k - 1) % Len(providers)) + 1]

\* the provider label of a call: the provider, "auto" when none was requested
Label(p) == IF p = None \/ p = Str(<<>>) THEN Str(<<"auto">>) ELSE p

\* what the k-th call made returned to the loop
CallResult(k) == call_router(Prompt, net[k].model, net[k].provider, net[k].outcome)

\* what the latest call made returned
LastResult == CallResult(Len(net))

Returns == pc = "returned"

\* C1: the combinations are called in the given order (models in list order,
\* within a model the providers in list order), one call per combination; no
\* call follows a successful call, and the run then returns ok=true with the
\* text, the model and the provider label of that call.
C1_InOrderUntilFirstSuccess ==
    /\ Len(net) <= NumCandidates
    /\ \A k \in 1..Len(net) :
        /\ net[k].model = CandModel(k)
        /\ net[k].provider = CandProvider(k)
        /\ net[k].request.url = router_url(CandModel(k))
        /\ (k < Len(net) => ~CallResult(k).ok)
    /\ (net # <<>> /\ CallResult(Len(net)).ok) =>
        /\ Returns
        /\ ret.ok
        /\ ret.text_or_error = CallResult(Len(net)).out
        /\ ret.used_model = CandModel(Len(net))
        /\ ret.used_provider = Label(CandProvider(Len(net)))
    /\ (Returns /\ ret.ok) => (net # <<>> /\ CallResult(Len(net)).ok)

\* the third of four combinations succeeds: the second model's first provider
C1_SuccessAtThirdOfFour ==
    /\ Returns /\ ret.ok
    /\ Len(models) = 2 /\ Len(providers) = 2
    /\ Len(net) = 3
    /\ net[3].model = models[2] /\ net[3].provider = providers[1]

C3_AllCandidatesFail ==
    (Returns /\ \A k \in 1..Len(net) : ~CallResult(k).ok) =>
        /\ ~ret.ok
        /\ ret.used_model = None
        /\ ret.used_provider = None
        /\ Len(net) = NumCandidates
        /\ Len(ret.tried_msgs) = Len(models) * Len(providers)
        /\ \A k \in 1..NumCandidates :
            /\ net[k].model = CandModel(k) /\ net[k].provider = CandProvider(k)
            /\ ret.tried_msgs[k] = CallResult(k).out

C3_FourCandidatesFailed ==
    /\ Returns /\ ~ret.ok
    /\ Len(ret.tried_msgs) = 4
    /\ ret.tried_msgs[1] # ret.tried_msgs[2]

\* C4: with no models or no providers the run returns ok=false with an empty
\* log, and no network call is made.
C4_EmptyCandidateList ==
    (models = <<>> \/ providers = <<>>) =>
        /\ net = <<>>
        /\ pc # "raised"
        /\ Returns => (~ret.ok /\ ret.tried_msgs = <<>> /\ ret.used_model = None)

C4_ModelsButNoProviders ==
    /\ Returns
    /\ models # <<>> /\ providers = <<>>
    /\ net = <<>>

\* C5: a call that returns a failure, whatever its kind, is followed by the
\* append of its message to the log, and the run goes on: it has not returned,
\* and while candidates remain the next combination is the one to be called.
C5_FailureIsLoggedAndRunGoesOn ==
    [][(net' # net /\ ~LastResult'.raised /\ ~LastResult'.ok) =>
        /\ tried_msgs' = Append(tried_msgs, LastResult'.out)
        /\ pc' = "loop"
        /\ (Len(net') < NumCandidates =>
               /\ HasNext(mi', pi', Len(models), Len(providers))
               /\ models[mi'] = CandModel(Len(net') + 1)
               /\ providers[pi'] = CandProvider(Len(net') + 1))]_vars

\* a 401, a 410 and a timeout in a row, and a fourth call was made after them
C5_FourthCallAfterThreeKinds ==
    /\ Len(net) = 4
    /\ net[1].outcome.status = 401
    /\ net[2].outcome.status = 410
    /\ net[3].outcome.kind = "timeout"
    /\ Len(tried_msgs) >= 3

C9_NoCallWithoutToken ==
    ~Truthy(HF_TOKEN) => (net = <<>> /\ ~(Returns /\ ret.ok))

-----------------------------------------------------------------------------
(* Properties of one attempt *)

Attempted == att.fn \in {"call_router", "hf_generate_via_endpoint"}

\* C7 as stated: whatever the exchange ends in, the attempt returns to its
\* caller, and what it returns is a success or ok=false with a message
C7_AttemptNeverRaises ==
    Attempted =>
        /\ ~att.res.raised
        /\ (~att.res.ok => (IsStr(att.res.out) /\ att.res.out.s # <<>>))

\* C8 as stated: every failure message of call_router contains the model
\* identifier and the provider, the provider written "auto" when none was requested
C8_MessageNamesModelAndProvider ==
    (att.fn = "call_router" /\ ~att.res.raised /\ ~att.res.ok) =>
        /\ Contains(att.res.out.s, att.model.s)
        /\ Contains(att.res.out.s, Label(att.provider).s)

\* the reason a failure message stands for, read off its leading fragment
ReasonOf(msg) ==
    LET h == Head(msg.s)
    IN  CASE h \in {"404 Not Found para ", "404 No encontrado: revisa la URL HF_ENDPOINT_URL."}
                -> "ModelUnavailable"
          [] h \in {"503 Servicio no disponible (cold start) para ",
                    "503 Servicio no disponible: el endpoint está arrancando (cold start) o saturado."}
                -> "ColdStart"
          [] h = "410: api-inference.huggingface.co fue deprecado; usa router.huggingface.co. "
                -> "DeprecatedEndpoint"
          [] h \in {"401 No autorizado: revisa tu HF_TOKEN o permisos.",
                    "401 No autorizado: revisa HF_TOKEN o permisos."} -> "Unauthorized"
          [] h = "403 Prohibido: el endpoint o el modelo requieren permisos/licencia."
                -> "Forbidden"
          [] h = "HTTP " -> "GenericHTTPError"
          [] h \in {"Timeout para ", "⏰ Timeout: el endpoint tardó demasiado en responder."}
                -> "Timeout"
          [] h \in {"Respuesta inesperada del Router para ", "Respuesta inesperada del endpoint: "}
                -> "UnrecognizedResponseShape"
          [] h = "Excepción: " -> "UnexpectedError"
          [] OTHER -> "Other"

\* the reason the classification table gives a status
TableReason(status) ==
    CASE status = 404 -> "ModelUnavailable"
      [] status = 503 -> "ColdStart"
      [] status = 410 -> "DeprecatedEndpoint"
      [] status = 401 -> "Unauthorized"
      [] status = 403 -> "Forbidden"
      [] OTHER -> "GenericHTTPError"

\* C10 as stated: in both clients every HTTP status gets the reason of the
\* table, 401, 403 and 410 their own
C10_StatusHasItsTableReason ==
    (Attempted /\ att.outcome.kind = "http" /\ ~att.res.raised) =>
        ReasonOf(att.res.out) = TableReason(att.outcome.status)

\* C11: a call that times out returns a Timeout failure (not an unexpected
\* fault, not a raised error), its message is logged and the run goes on to the
\* next candidate; with a single candidate the outcome is ok=false with a log
\* of exactly that one Timeout failure.
C11_TimeoutIsAFailureAndRunGoesOn ==
    \A k \in 1..Len(net) :
        net[k].outcome.kind = "timeout" =>
            /\ ~CallResult(k).raised
            /\ ~CallResult(k).ok
            /\ ReasonOf(CallResult(k).out) = "Timeout"
            /\ pc # "raised" => tried_msgs[k] = CallResult(k).out
            /\ (k = Len(net) /\ k < NumCandidates) =>
                  /\ pc = "loop"
                  /\ HasNext(mi, pi, Len(models), Len(providers))
                  /\ models[mi] = CandModel(k + 1)
                  /\ providers[pi] = CandProvider(k + 1)
            /\ (Returns /\ NumCandidates = 1) =>
                  /\ ~ret.ok
                  /\ ret.tried_msgs = <<RouterTimeoutMsg(models[1], providers[1])>>

\* the only candidate timed out and the run has returned
C11_OnlyCandidateTimedOut ==
    /\ Returns
    /\ NumCandidates = 1
    /\ Len(net) = 1
    /\ net[1].outcome.kind = "timeout"

\* C12: on a 2xx response both clients return exactly T for [{generated_text: T, ...}],
\* {generated_text: T}, [{text: T}] and [{output_text: T}], and for every other
\* payload they return, without raising, an unrecognized-response failure.
C12_RecognizedShapesGiveTheirText ==
    (att.fn \in {"call_router", "hf_generate_via_endpoint"} /\ att.outcome.kind = "2xx") =>
        LET data == att.outcome.data
            first == IF IsList(data) /\ data.items # <<>> /\ IsDict(data.items[1])
                        THEN data.items[1].d ELSE << >>
            success(T) == ~att.res.raised /\ att.res.ok /\ att.res.out = T
        IN  IF "generated_text" \in DOMAIN first THEN success(first["generated_text"])
            ELSE IF IsDict(data) /\ "generated_text" \in DOMAIN data.d
                THEN success(data.d["generated_text"])
            ELSE IF "text" \in DOMAIN first THEN success(first["text"])
            ELSE IF "output_text" \in DOMAIN first THEN success(first["output_text"])
            ELSE /\ ~att.res.raised
                 /\ ~att.res.ok
                 /\ ReasonOf(att.res.out) = "UnrecognizedResponseShape"

\* the endpoint client answers a [{text: T}] payload
C12_TextKeyAccepted ==
    /\ att.fn = "hf_generate_via_endpoint"
    /\ att.outcome.kind = "2xx"
    /\ att.outcome.data = JList(<<JDict([text |-> Poem])>>)
    /\ att.res.ok

\* C15: the body call_router sends has a top-level provider field exactly when
\* a provider is requested (not None, not empty), and the field is then the
\* requested provider; the automatic-routing call sends no provider field.
C15_ProviderFieldIffRequested ==
    (att.fn = "call_router" /\ net # <<>>) =>
        LET body == net[Len(net)].request.json
        IN  /\ ("provider" \in DOMAIN body) <=> (att.provider \notin {None, Str(<<>>)})
            /\ ("provider" \in DOMAIN body) => body["provider"] = att.provider
            /\ att.provider = None => DOMAIN body = {"inputs", "parameters"}

\* a call for automatic routing was sent
C15_AutomaticRoutingCall ==
    /\ att.fn = "call_router"
    /\ att.provider = None
    /\ Len(net) = 1
    /\ "provider" \notin DOMAIN net[1].request.json

HandlerRan == att.fn = "button_handler" /\ att.res.sent

\* C13 as stated: for a non-empty list whose first element is a mapping, the
\* inline extraction of the button handler gives the result of the standalone
\* extraction: the value of the first key present in the order generated_text,
\* text, output_text, whatever the value is.
C13_ExtractionSitesAgree ==
    (HandlerRan /\ att.outcome.kind = "2xx" /\ IsList(att.outcome.data)
        /\ Truthy(att.outcome.data) /\ IsDict(att.outcome.data.items[1])) =>
        LET x == EndpointExtract(att.outcome.data)
        IN  /\ att.res.ok = x.found
            /\ x.found => att.res.out = x.value
            /\ x = RouterExtract(att.outcome.data)

C17_DisplayedTextFollowsLastMarker ==
    (HandlerRan /\ att.res.ok /\ IsStr(att.res.out)) =>
        /\ ~att.res.raised
        /\ LET raw == att.res.out.s
               last == CHOOSE i \in 1..Len(raw) :
                          raw[i] = split_key /\ \A j \in (i + 1)..Len(raw) : raw[j] # split_key
           IN  IF \E i \in 1..Len(raw) : raw[i] = split_key
                  THEN att.res.shown = Str(Strip(SubSeq(raw, last + 1, Len(raw))))
                  ELSE att.res.shown = att.res.out

\* C18 as stated: after _merge_extra_params the base payload, its nested
\* parameters included, holds what it held before, and the parameters of the
\* returned payload are the base parameters plus top_p, top_k and
\* repetition_penalty for exactly those that differ from their default.
C18_MergeLeavesBasePayloadUnchanged ==
    HandlerRan =>
        LET base == [max_new_tokens |-> SLIDER_MAX_NEW_TOKENS, temperature |-> TEMPERATURE_CENTI]
            sent == att.res.payload.parameters
            moved == {k \in {"top_p", "top_k", "repetition_penalty"} :
                         att.sliders[k] # (CASE k = "top_p" -> DEFAULT_TOP_P_CENTI
                                             [] k = "top_k" -> DEFAULT_TOP_K
                                             [] OTHER -> DEFAULT_REPETITION_PENALTY_CENTI)}
        IN  /\ att.res.base_after = [inputs |-> Prompt, parameters |-> base]
            /\ att.res.payload.inputs = Prompt
            /\ DOMAIN sent = DOMAIN base \cup moved
            /\ \A k \in DOMAIN base : sent[k] = base[k]
            /\ \A k \in moved : sent[k] = att.sliders[k]

\* the place of the loop position (mi, pi) in the order of the combinations
Position == (mi - 1) * Len(providers) + pi

\* C19: when every call returns, robust_generate terminates; it makes at most
\* len(models) * len(providers) calls, no two of them to the same (model,
\* provider) combination, and after a failure the loop only moves forward in
\* the order of the combinations.
C19_TerminatesWithinAllCombinations ==
    /\ <>(pc # "loop")
    /\ [](/\ Len(net) <= Len(models) * Len(providers)
          /\ \A j, k \in 1..Len(net) :
                j # k => <<net[j].model, net[j].provider>> # <<net[k].model, net[k].provider>>)
    /\ [][(pc = "loop" /\ pc' = "loop") =>
             (Position' = Position + 1 /\ Len(net') = Len(net) + 1)]_vars

C19_EveryCombinationCalledOnce ==
    /\ pc = "returned" /\ Len(models) = 2 /\ Len(providers) = 2
    /\ {<<net[k].model, net[k].provider>> : k \in 1..Len(net)}
          = {<<m, p>> : m \in {models[1], models[2]}, p \in {providers[1], providers[2]}}
    /\ Len(net) = 4

\* the calls of run r, in the order they were sent
CallsOf(r) == SelectSeq(conc.calls, LAMBDA c : c.run = r)

\* the failure messages run r was given by its own calls, in order
RECURSIVE FailuresIn(_)
FailuresIn(cs) ==
    IF cs = <<>> THEN <<>>
    ELSE LET c == Head(cs)
             res == call_router(Prompt, c.model, c.provider, c.outcome)
         IN  (IF c.state = "returned" /\ ~res.raised /\ ~res.ok THEN <<res.out>> ELSE <<>>)
             \o FailuresIn(Tail(cs))

\* C16: a run has at most one call in flight; two runs that execute
\* concurrently share no list, and the log a run returned holds exactly the
\* failures of its own calls, whatever the other run does before or after.
C16_RunsAreSequentialAndIsolated ==
    conc.state = "running" =>
        /\ \A r \in Runs :
              Cardinality({k \in 1..Len(conc.calls) :
                              conc.calls[k].run = r /\ conc.calls[k].state = "in flight"}) <= 1
        /\ \A r1, r2 \in Runs :
              (r1 # r2 /\ conc.run[r1].tried_msgs # 0)
                  => conc.run[r1].tried_msgs # conc.run[r2].tried_msgs
        /\ \A r \in Runs :
              conc.run[r].pc = "returned" =>
                  conc.heap[conc.run[r].ret.tried_msgs] = FailuresIn(CallsOf(r))

C16_InterleavedRunsBothReturned ==
    /\ conc.state = "running"
    /\ \A r \in Runs : conc.run[r].pc = "returned" /\ ~conc.run[r].ret.ok
    /\ Len(conc.calls) = 4
    /\ conc.calls[1].run = 1 /\ conc.calls[2].run = 2
    /\ conc.calls[3].run = 1 /\ conc.calls[4].run = 2
    /\ Len(conc.heap[conc.run[1].ret.tried_msgs]) = 2

====
